---- MODULE Spec2Model ----
(***************************************************************************)
(* Lotto Pro Generator (src/script.js): the number samplers, the filter    *)
(* bank, the scorer, the Monte Carlo search loop, the click handler that   *)
(* drives it and the history it feeds.                                     *)
(*                                                                         *)
(* Numbers.  Math.random() is a real in [0,1); here it is x / RandUnit for *)
(* an integer x in 0..RandUnit-1.  Weights are kept in units of            *)
(* 1/(10*RandUnit) and scores in units of 1/RandUnit, so every value the   *)
(* code computes from such draws is a whole number here and every          *)
(* comparison it makes on reals has the same outcome on these integers.    *)
(***************************************************************************)
EXTENDS Integers, Sequences, FiniteSets, TLC

\* ------------------------------------------------------------ state
VARIABLES
    dom,            \* the page's controls
    AI_WEIGHTS,     \* the weight table built at load time
    LottoHistory,   \* the history array
    historyKind,    \* the kind of value LottoHistory holds ("array" or not)
    inserted,       \* every record the history received, oldest first
    storage,        \* localStorage's item
    pc,             \* where the click handler and its search loop stand
    cfg,            \* runMonteCarloSimulation's settings, read on entry
    i, j,           \* the loop counters
    bestSet, maxScore,  \* the incumbent
    candidate,      \* the current iteration's candidate
    result,         \* what runMonteCarloSimulation returned
    progress,       \* the percentages written to the progress bar
    alerts,         \* the alerts shown
    calls,          \* sampler calls made by the run
    anyCandidate,   \* whether a sampler call of the run returned non-null
    reference,      \* the same draws fed to a loop without batches
    frame,          \* a sampler call followed iteration by iteration
    verdict,        \* what the filters and the scorer said of a candidate
    runs,           \* two clicks' runs: where each stands and what it returned
    locals,         \* the variables declared by each call of the search loop
    turn            \* the run whose code is executing (0: none)

runVars == <<dom, LottoHistory, historyKind, inserted, storage, pc, cfg, i, j,
             bestSet, maxScore, candidate, result, progress, alerts, calls,
             anyCandidate, reference>>
overlapVars == <<runs, locals, turn>>
vars == <<runVars, AI_WEIGHTS, frame, verdict, overlapVars>>

\* ------------------------------------------------------------ constants
TOTAL_BALLS == 45
SELECT_COUNT == 6
MAX_HISTORY == 5
\* while (set.size < SELECT_COUNT && tries < 1000)
MAX_TRIES == 1000
CHUNK_SIZE == 500
\* const SIMULATION_COUNT = useMonteCarlo ? 10000 : 100
SIMULATION_COUNT_MC == 10000
SIMULATION_COUNT_QUICK == 100
\* let maxScore = -1
INITIAL_MAX_SCORE == -1

\* Granularity of the random source: Math.random() = x / RandUnit.
RandUnit == 1000

\* JavaScript's null (a combination is never empty).
null == <<>>

\* ------------------------------------------------------------ filters
RECURSIVE SumSeq(_)
\* numbers.reduce((a, b) => a + b, 0)
SumSeq(numbers) ==
    IF numbers = <<>> THEN 0 ELSE Head(numbers) + SumSeq(Tail(numbers))

\* The sum test with its bounds left out.
checkSumExclusive(numbers) ==
    LET sum == SumSeq(numbers) IN sum > 120 /\ sum < 170

checkSum(numbers) ==
    LET sum == SumSeq(numbers) IN sum >= 120 /\ sum <= 170

Abs(n) == IF n < 0 THEN -n ELSE n

\* The Set of |numbers[i] - numbers[j]| over i < j.
Differences(numbers) ==
    { Abs(numbers[p[1]] - numbers[p[2]]) :
        p \in { q \in (DOMAIN numbers) \X (DOMAIN numbers) : q[1] < q[2] } }

\* The AC test that needs more than 7.
checkACAbove(numbers) ==
    Cardinality(Differences(numbers)) - (Len(numbers) - 1) > 7

checkAC(numbers) ==
    LET acValue == Cardinality(Differences(numbers)) - (Len(numbers) - 1)
    IN  acValue >= 7

getACValue(numbers) ==
    Cardinality(Differences(numbers)) - (Len(numbers) - 1)

checkMirror(numbers) ==
    LET uniqueDigits == { numbers[n] % 10 : n \in DOMAIN numbers }
    IN  Cardinality(uniqueDigits) < 6

\* The band test with 15 and 30 counted in the band above.
checkMatrixEdges(numbers) ==
    LET low  == Cardinality({ n \in DOMAIN numbers : numbers[n] < 15 })
        mid  == Cardinality({ n \in DOMAIN numbers :
                                numbers[n] >= 15 /\ numbers[n] < 30 })
        high == Cardinality({ n \in DOMAIN numbers : numbers[n] >= 30 })
    IN  low <= 4 /\ mid <= 4 /\ high <= 4

checkMatrix(numbers) ==
    LET low  == Cardinality({ n \in DOMAIN numbers : numbers[n] <= 15 })
        mid  == Cardinality({ n \in DOMAIN numbers :
                                numbers[n] > 15 /\ numbers[n] <= 30 })
        high == Cardinality({ n \in DOMAIN numbers : numbers[n] > 30 })
    IN  low <= 4 /\ mid <= 4 /\ high <= 4

checkExclusion(numbers, excludedSet) ==
    \A n \in DOMAIN numbers : numbers[n] \notin excludedSet

\* ------------------------------------------------------------ weights
Max(a, b) == IF a >= b THEN a ELSE b
Min(a, b) == IF a <= b THEN a ELSE b

\* The x-th value of a cyclically repeated finite sequence (k counts from 0).
Cyclic(s, k) == s[(k % Len(s)) + 1]

\* n tenths as a weight: a weight w is held as the integer w * 10 * RandUnit,
\* in which every weight the code computes is whole.
Tenths(n) == n * RandUnit

\* One entry of AI_WEIGHTS, x the random draw of its noise:
\* Math.max(0.1, weight + (Math.random() * 0.4 - 0.2)), the noise
\* (x / RandUnit) * 0.4 - 0.2 being (4 * x - 2 * RandUnit) / (10 * RandUnit).
\* Entry 0 is 0 and reads no random draw.
AIWeight(ball, x) ==
    IF ball = 0 THEN 0
    ELSE LET base   == Tenths(10)
             center == IF ball >= 10 /\ ball <= 35 THEN Tenths(3) ELSE 0
             hot    == IF ball \in {1, 13, 17, 33, 40} THEN Tenths(5) ELSE 0
             cold   == IF ball \in {9, 22, 41} THEN Tenths(4) ELSE 0
             noise  == 4 * x - Tenths(2)
         IN  Max(Tenths(1), base + center + hot - cold + noise)

\* The table built at load time from the random draws xs (repeated
\* cyclically).  Array.from calls the function for i = 0, 1, .., 45 and the
\* call for i = 0 returns before Math.random(), so ball b >= 1 reads the
\* draw numbered b - 1 (from 0).
BuildWeights(xs) ==
    [ball \in 0..TOTAL_BALLS |->
        IF ball = 0 THEN AIWeight(0, 0)
        ELSE AIWeight(ball, Cyclic(xs, ball - 1))]

RECURSIVE SumWeights(_, _)
\* AI_WEIGHTS.reduce((sum, w) => sum + w, 0), over indices 0..upTo
SumWeights(weights, upTo) ==
    IF upTo < 0 THEN 0 ELSE SumWeights(weights, upTo - 1) + weights[upTo]

\* ------------------------------------------------------------ samplers
\* What Array.prototype.sort() without a comparator would do: compare the
\* decimal strings (balls have one or two digits).
LexLess(a, b) ==
    LET da == IF a >= 10 THEN a \div 10 ELSE a
        db == IF b >= 10 THEN b \div 10 ELSE b
    IN  \/ da < db
        \/ da = db /\ a < 10 /\ b >= 10
        \/ da = db /\ a >= 10 /\ b >= 10 /\ a % 10 < b % 10

\* The comparator (a, b) => a - b.
Before(a, b) == a < b

RECURSIVE SortedArray(_)
\* Array.from(set).sort((a, b) => a - b)
SortedArray(set) ==
    IF set = {} THEN <<>>
    ELSE LET first == CHOOSE a \in set : \A b \in set \ {a} : Before(a, b)
         IN  <<first>> \o SortedArray(set \ {first})

\* Math.floor(Math.random() * TOTAL_BALLS) + 1
UniformBall(x) == (x * TOTAL_BALLS) \div RandUnit + 1

RECURSIVE WheelWalk(_, _, _, _, _)
\* for (i = 1; i <= TOTAL_BALLS; i++) { runningSum += w[i]; if (random <=
\* runningSum) ... break }  with random = (x / RandUnit) * totalWeight.
\* 0 when the walk ends without a hit.
WheelWalk(weights, totalWeight, x, ball, runningSum) ==
    IF ball > TOTAL_BALLS THEN 0
    ELSE LET sum == runningSum + weights[ball]
         IN  IF x * totalWeight <= RandUnit * sum THEN ball
             ELSE WheelWalk(weights, totalWeight, x, ball + 1, sum)

\* A call that forgets the fixed numbers.
SamplerStartEmpty(fixedSet) == [set |-> {}, tries |-> 0]

\* The working state of a sampler call: the Set and the tries counter.
SamplerStart(fixedSet) == [set |-> fixedSet, tries |-> 0]

\* The bound taken one iteration too far.
LoopBoundInclusive(tries) == tries <= MAX_TRIES

\* while (set.size < SELECT_COUNT && tries < 1000)
LoopBound(tries) == tries < MAX_TRIES
SamplerContinues(s) ==
    Cardinality(s.set) < SELECT_COUNT /\ LoopBound(s.tries)

\* The test without its exclusion half.
AcceptsIgnoringExcluded(set, excludedSet, num) == num \notin set

\* if (!set.has(num) && !excludedSet.has(num))
Accepts(set, excludedSet, num) == num \notin set /\ num \notin excludedSet

\* One iteration of either loop with the drawn ball num (0: no ball hit).
SamplerBody(s, excludedSet, num) ==
    [set   |-> IF num # 0 /\ Accepts(s.set, excludedSet, num)
               THEN s.set \cup {num} ELSE s.set,
     tries |-> s.tries + 1]

\* if (set.size < SELECT_COUNT) return null; return Array.from(set).sort(..)
SamplerReturn(s) ==
    IF Cardinality(s.set) < SELECT_COUNT THEN null ELSE SortedArray(s.set)

\* The ball one iteration draws from the random draw x.  call holds what
\* the call fixed on entry: which sampler it is, totalWeight, excludedSet.
DrawBall(call, weights, x) ==
    IF call.useAI
    THEN WheelWalk(weights, call.totalWeight, x, 1, 0)
    ELSE UniformBall(x)

RECURSIVE SamplerLoop(_, _, _, _, _)
\* The while loop run for at most n more iterations on the random stream
\* (the iteration entered with tries = t reads Cyclic(stream, t)).  The
\* iterations are split in halves only to keep the evaluation shallow; their
\* order is the loop's.
SamplerLoop(s, n, call, weights, stream) ==
    IF n = 0 \/ ~SamplerContinues(s) THEN s
    ELSE IF n = 1
    THEN SamplerBody(s, call.excludedSet,
                     DrawBall(call, weights, Cyclic(stream, s.tries)))
    ELSE LET h   == n \div 2
             mid == SamplerLoop(s, h, call, weights, stream)
         IN  IF SamplerContinues(mid)
             THEN SamplerLoop(mid, n - h, call, weights, stream)
             ELSE mid

UniformCall(excludedSet) ==
    [useAI |-> FALSE, totalWeight |-> 0, excludedSet |-> excludedSet]

WeightedCall(weights, excludedSet) ==
    [useAI |-> TRUE,
     totalWeight |-> SumWeights(weights, TOTAL_BALLS),
     excludedSet |-> excludedSet]

generateRandomSetWithFixed(fixedSet, excludedSet, stream) ==
    SamplerReturn(SamplerLoop(SamplerStart(fixedSet), MAX_TRIES,
                              UniformCall(excludedSet), <<>>, stream))

generateWeightedSetWithFixed(weights, fixedSet, excludedSet, stream) ==
    SamplerReturn(SamplerLoop(SamplerStart(fixedSet), MAX_TRIES,
                              WeightedCall(weights, excludedSet), weights,
                              stream))

\* ------------------------------------------------------------ scorer
\* Scores are in units of 1/RandUnit: Math.random() * 10 is 10 * x.
Points(n) == n * RandUnit

\* The sum term with a penalty the noise can outweigh.
SumTermMild(useSum, cand) ==
    IF useSum THEN (IF checkSum(cand) THEN Points(20) ELSE Points(-5))
    ELSE 0
\* The sum term applied whether or not its filter is enabled.
SumTermAlways(useSum, cand) ==
    IF checkSum(cand) THEN Points(20) ELSE Points(-50)
SumTerm(useSum, cand) ==
    IF useSum THEN (IF checkSum(cand) THEN Points(20) ELSE Points(-50))
    ELSE 0
ACTerm(useAC, cand) ==
    IF useAC THEN (IF checkAC(cand) THEN Points(15) ELSE Points(-20))
    ELSE 0
MirrorTerm(useMirror, cand) ==
    IF useMirror THEN (IF checkMirror(cand) THEN Points(10) ELSE 0)
    ELSE 0
MatrixTerm(useMatrix, cand) ==
    IF useMatrix
    THEN (IF checkMatrix(cand) THEN Points(10) ELSE Points(-10))
    ELSE 0

\* let score = 0; score += Math.random() * 10; score += ... per filter
ScoreOf(cand, x, c) ==
    0 + 10 * x + SumTerm(c.useSum, cand) + ACTerm(c.useAC, cand)
      + MirrorTerm(c.useMirror, cand) + MatrixTerm(c.useMatrix, cand)

\* The comparison that lets a tie replace the incumbent.
ImprovesOrTies(score, best) == score >= best

\* if (score > maxScore)
Improves(score, best) == score > best

\* ------------------------------------------------------------ settings
\* parseInt's result: <<>> for NaN, <<n>> for the number n.
NotANumber == <<>>
Num(n) == <<n>>
isNaN(v) == v = NotANumber
ValueOf(v) == v[1]

\* new Set(exclusionInput.split(',').map(s => parseInt(s.trim()))
\*                                  .filter(n => !isNaN(n)))
ParseExclusions(tokens) ==
    { ValueOf(tokens[k]) : k \in { k \in DOMAIN tokens : ~isNaN(tokens[k]) } }

InRange(v) == ~isNaN(v) /\ ValueOf(v) >= 1 /\ ValueOf(v) <= 45

\* fixedNums after the two pushes.
ParseFixed(fixedVal1, fixedVal2) ==
    (IF InRange(fixedVal1) THEN <<ValueOf(fixedVal1)>> ELSE <<>>)
    \o (IF InRange(fixedVal2) THEN <<ValueOf(fixedVal2)>> ELSE <<>>)

SeqRange(q) == { q[k] : k \in DOMAIN q }

\* The two validity checks, in the code's order: "" when both pass.
DuplicateFixed(fixedNums) == Len(fixedNums) = 2 /\ fixedNums[1] = fixedNums[2]
\* The exclusion check that looks at the first fixed number only.
FixedExcludedFirstOnly(fixedNums, excludedSet) ==
    Len(fixedNums) >= 1 /\ fixedNums[1] \in excludedSet
FixedExcluded(fixedNums, excludedSet) ==
    \E k \in DOMAIN fixedNums : fixedNums[k] \in excludedSet
Rejection(fixedNums, excludedSet) ==
    IF DuplicateFixed(fixedNums) THEN "duplicateFixed"
    ELSE IF FixedExcluded(fixedNums, excludedSet) THEN "fixedExcluded"
    ELSE ""

SimulationCount(useMonteCarlo) ==
    IF useMonteCarlo THEN SIMULATION_COUNT_MC ELSE SIMULATION_COUNT_QUICK

\* Math.min(100, Math.round((i / SIMULATION_COUNT) * 100))
ProgressPercent(done, count) ==
    Min(100, (2 * 100 * done + count) \div (2 * count))

\* ------------------------------------------------------------ history
\* saveToHistory: unshift the record, pop beyond MAX_HISTORY.
\* The record put at the end of the array.
Pushed(history, numbers, date) ==
    history \o <<[numbers |-> numbers, date |-> date]>>
\* LottoHistory.unshift(record)
Unshifted(history, numbers, date) ==
    <<[numbers |-> numbers, date |-> date]>> \o history
\* The cap that drops the newest record instead of the oldest.
CappedAtFront(history) ==
    IF Len(history) > MAX_HISTORY THEN Tail(history) ELSE history
\* if (LottoHistory.length > MAX_HISTORY) LottoHistory.pop()
Capped(history) ==
    IF Len(history) > MAX_HISTORY
    THEN SubSeq(history, 1, Len(history) - 1) ELSE history
SavedHistory(history, numbers, date) ==
    Capped(Unshifted(history, numbers, date))

\* localStorage's item: absent, or a text, held as what JSON.parse makes of
\* it: its shape, its length property (-1 for undefined) and, for an array,
\* its elements.
NoItem == [present |-> FALSE, shape |-> "none", length |-> 0, value |-> <<>>]
Text(shape, length) ==
    [present |-> TRUE, shape |-> shape, length |-> length, value |-> <<>>]
\* An array element that is not a record with a numbers array (a number, an
\* empty object), held as a record without numbers.
NotARecord == [numbers |-> <<>>, date |-> -1]
\* JSON.stringify of an array: "records" when every element is a record.
Item(history) ==
    [present |-> TRUE,
     shape |-> IF \E k \in DOMAIN history : history[k] = NotARecord
               THEN "array" ELSE "records",
     length |-> Len(history), value |-> history]

\* if (saved): null and the empty text are falsy.
Truthy(item) == item.present /\ item.shape # "empty"
\* JSON.parse(saved) throws.
ParseThrows(item) == item.shape = "unparseable"
\* renderHistory() throws on the value: never when the page has no
\* #historyList element (it returns before reading the value); otherwise
\* null has no length, and a value of length other than 0 needs a map
\* method and records with a numbers array.
RenderThrows(item, container) ==
    /\ container
    /\ \/ item.shape = "null"
       \/ item.length # 0 /\ item.shape # "records"
\* loadHistory's catch branch is taken.
LoadCaught(item, container) ==
    ParseThrows(item) \/ RenderThrows(item, container)

\* A sequence read from its last element to its first.
Reversed(q) == [k \in 1..Len(q) |-> q[Len(q) + 1 - k]]

\* loadHistory, from the initial LottoHistory = []: the kind of value left in
\* LottoHistory, and its elements.
LoadedKind(item, container) ==
    IF /\ Truthy(item) /\ ~LoadCaught(item, container)
       /\ item.shape \notin { "records", "array" }
    THEN item.shape ELSE "array"
LoadedHistory(item, container) ==
    IF /\ Truthy(item) /\ ~LoadCaught(item, container)
       /\ item.shape \in { "records", "array" }
    THEN item.value ELSE <<>>

\* ------------------------------------------------------------ inputs
\* The least random draw that UniformBall maps to ball b.
XOf(b) == ((b - 1) * RandUnit + TOTAL_BALLS - 1) \div TOTAL_BALLS
StreamOfBalls(bs) == [k \in DOMAIN bs |-> XOf(bs[k])]

\* The random streams a sampler call of the search loop may read.
RunStreams ==
    { StreamOfBalls(<<3, 3, 20, 11, 19, 24, 38, 43>>),
      StreamOfBalls(<<6, 5, 4, 3, 2, 1>>),
      StreamOfBalls(<<16, 18, 22, 25, 29, 40>>),
      StreamOfBalls(<<10, 15, 20, 25, 30, 35>>),
      StreamOfBalls(<<1, 2, 3>>) }

\* The random draws the scorer's noise term may read: 0, 9.5.
NoiseDraws == { 0, (95 * RandUnit) \div 100 }

\* The random draws AI_WEIGHTS may be built from at load time.
WeightTables == { BuildWeights(<<0>>), BuildWeights(<<999, 0, 500, 250>>) }

FilterChoices ==
    { [sum |-> FALSE, ac |-> FALSE, mirror |-> FALSE, matrix |-> FALSE],
      [sum |-> TRUE,  ac |-> FALSE, mirror |-> FALSE, matrix |-> FALSE],
      [sum |-> FALSE, ac |-> TRUE,  mirror |-> FALSE, matrix |-> FALSE],
      [sum |-> FALSE, ac |-> FALSE, mirror |-> TRUE,  matrix |-> TRUE],
      [sum |-> TRUE,  ac |-> TRUE,  mirror |-> TRUE,  matrix |-> TRUE] }

\* The text fields, held as what parseInt makes of each token.
FieldChoices ==
    { [exclusionInput |-> <<NotANumber>>,
       fixedNum1 |-> NotANumber, fixedNum2 |-> NotANumber],
      [exclusionInput |-> <<Num(20), NotANumber>>,
       fixedNum1 |-> Num(7), fixedNum2 |-> Num(12)],
      [exclusionInput |-> <<Num(46), Num(0)>>,
       fixedNum1 |-> Num(46), fixedNum2 |-> Num(12)],
      [exclusionInput |-> <<NotANumber>>,
       fixedNum1 |-> Num(7), fixedNum2 |-> Num(7)],
      [exclusionInput |-> <<Num(3), Num(7)>>,
       fixedNum1 |-> Num(7), fixedNum2 |-> NotANumber],
      [exclusionInput |-> <<Num(12)>>,
       fixedNum1 |-> Num(7), fixedNum2 |-> Num(12)] }

\* The page when the button is clicked: its controls and whether it has the
\* #historyList element.  The 10000-draw mode is explored on fewer settings
\* than the 100-draw mode, and the click on a page that has the element.
DomStates ==
    { d \in [filters : FilterChoices, fields : FieldChoices,
             filterMonteCarlo : BOOLEAN, filterAI : BOOLEAN,
             historyList : { TRUE }] :
        d.filterMonteCarlo =>
            /\ d.filters.sum /\ ~d.filters.ac
            /\ ~d.filterAI
            /\ isNaN(d.fields.fixedNum1) }

OldRecord(k) == [numbers |-> <<k, k + 10, k + 20, 31, 38, 45>>, date |-> k]
FullHistory == [k \in 1..MAX_HISTORY |-> OldRecord(MAX_HISTORY + 1 - k)]
StoredItems == { NoItem, Item(FullHistory) }
\* The minute of the click (later than every stored record's).
ClickMinute == 9

\* The page after load: the controls, the weights built at load time and the
\* stored history.  The weights vary where the weighted sampler reads them.
Pages ==
    { w \in [dom : DomStates, weights : WeightTables, item : StoredItems] :
        /\ ~w.dom.filterAI => w.weights = BuildWeights(<<0>>)
        /\ w.dom.filterMonteCarlo => w.item = NoItem }

\* The sampler's results on the inputs the search loop can hand it, computed
\* once per input.
SamplerInputs ==
    { <<w.dom.filterAI, w.weights,
        SeqRange(ParseFixed(w.dom.fields.fixedNum1, w.dom.fields.fixedNum2)),
        ParseExclusions(w.dom.fields.exclusionInput), stream>> :
        w \in Pages, stream \in RunStreams }
SamplerResults ==
    [in \in SamplerInputs |->
        IF in[1] THEN generateWeightedSetWithFixed(in[2], in[3], in[4], in[5])
        ELSE generateRandomSetWithFixed(in[3], in[4], in[5])]

\* No sampler call is being followed.
NoFrame == [pc |-> "idle", call |-> UniformCall({}), fixedSet |-> {},
            set |-> {}, tries |-> 0, discarded |-> 0, ret |-> null]

NoCfg == [useSum |-> FALSE, useAC |-> FALSE, useMirror |-> FALSE,
          useMatrix |-> FALSE, useAI |-> FALSE, count |-> 0,
          excludedSet |-> {}, fixedNums |-> <<>>]
NoResult == [numbers |-> null, score |-> 0]
NoVerdict == [sum |-> FALSE, ac |-> FALSE, acValue |-> 0, mirror |-> FALSE,
              matrix |-> FALSE, noise |-> 0, score |-> 0]
ReferenceStart == [k |-> 0, best |-> null, max |-> Points(INITIAL_MAX_SCORE)]
\* No run has been started.
RunIds == { 1, 2 }
NoRuns == [r \in RunIds |-> [pc |-> "idle", result |-> NoResult,
                             reference |-> ReferenceStart, calls |-> 0]]
NoLocals == [r \in RunIds |-> [count |-> 0, i |-> 0, j |-> 0, bestSet |-> null,
                               maxScore |-> 0]]

Init ==
    \E w \in Pages :
        /\ dom = w.dom
        /\ AI_WEIGHTS = w.weights
        /\ storage = w.item
        /\ LottoHistory = LoadedHistory(w.item, w.dom.historyList)
        /\ historyKind = LoadedKind(w.item, w.dom.historyList)
        /\ inserted = Reversed(LoadedHistory(w.item, w.dom.historyList))
        /\ pc = "idle"
        /\ cfg = NoCfg
        /\ i = 0 /\ j = 0
        /\ bestSet = null /\ maxScore = 0
        /\ candidate = null
        /\ result = NoResult
        /\ progress = <<>>
        /\ alerts = <<>>
        /\ calls = 0
        /\ anyCandidate = FALSE
        /\ reference = ReferenceStart
        /\ frame = NoFrame
        /\ runs = NoRuns /\ locals = NoLocals /\ turn = 0
        /\ verdict = NoVerdict

\* ------------------------------------------------------------ search loop
\* generateBtn's click handler up to runMonteCarloSimulation's first await,
\* or to its early return.
Click ==
    /\ pc = "idle"
    /\ LET excludedSet == ParseExclusions(dom.fields.exclusionInput)
           fixedNums   == ParseFixed(dom.fields.fixedNum1, dom.fields.fixedNum2)
           why         == Rejection(fixedNums, excludedSet)
       IN  /\ cfg' = [useSum |-> dom.filters.sum, useAC |-> dom.filters.ac,
                      useMirror |-> dom.filters.mirror,
                      useMatrix |-> dom.filters.matrix,
                      useAI |-> dom.filterAI,
                      count |-> SimulationCount(dom.filterMonteCarlo),
                      excludedSet |-> excludedSet, fixedNums |-> fixedNums]
           /\ IF why # ""
              THEN /\ alerts' = Append(alerts, why)
                   /\ result' = [numbers |-> null,
                                 score |-> Points(-1)]
                   /\ pc' = "returned"
                   /\ UNCHANGED <<bestSet, maxScore>>
              ELSE /\ bestSet' = null
                   /\ maxScore' = Points(INITIAL_MAX_SCORE)
                   /\ pc' = "yield"
                   /\ UNCHANGED <<alerts, result>>
    /\ i' = 0
    /\ UNCHANGED <<frame, verdict, overlapVars, dom, AI_WEIGHTS,
                   LottoHistory, historyKind,
                   inserted, storage, j, candidate,
                   progress, calls, anyCandidate, reference>>

\* The animation frame arrives: the progress report, then the chunk's first
\* iteration is entered (i < SIMULATION_COUNT holds here).
BatchStart ==
    /\ pc = "yield"
    /\ progress' = Append(progress, ProgressPercent(i, cfg.count))
    /\ j' = 0
    /\ pc' = "sample"
    /\ UNCHANGED <<frame, verdict, overlapVars, dom, AI_WEIGHTS,
                   LottoHistory, historyKind,
                   inserted, storage, cfg, i, bestSet,
                   maxScore, candidate, result, alerts, calls, anyCandidate,
                   reference>>

\* The break test that lets one draw too many through.
InChunkLate(i0, j0, count) == j0 < CHUNK_SIZE /\ ~(i0 + j0 > count)

\* for (j ...; j < CHUNK_SIZE; j++) { if (i + j >= SIMULATION_COUNT) break;
InChunk(i0, j0, count) == j0 < CHUNK_SIZE /\ ~(i0 + j0 >= count)
\* for (i ...; i < SIMULATION_COUNT; i += CHUNK_SIZE)
InRun(i0, count) == i0 < count

\* Control after the iteration j ends with the incumbent (best, max): the
\* next iteration, the next chunk's await, or the return.
Continue(best, max) ==
    IF InChunk(i, j + 1, cfg.count)
    THEN /\ j' = j + 1 /\ i' = i /\ pc' = "sample" /\ result' = result
    ELSE IF InRun(i + CHUNK_SIZE, cfg.count)
    THEN /\ j' = 0 /\ i' = i + CHUNK_SIZE /\ pc' = "yield"
         /\ result' = result
    ELSE /\ j' = 0 /\ i' = i + CHUNK_SIZE /\ pc' = "returned"
         /\ result' = [numbers |-> best, score |-> max]

\* The loop without batches, fed the same candidate and score.
ReferenceStep(r, count, cand, score) ==
    IF r.k >= count THEN r
    ELSE IF cand # null /\ score > r.max
    THEN [k |-> r.k + 1, best |-> cand, max |-> score]
    ELSE [r EXCEPT !.k = r.k + 1]

\* One iteration up to "if (!candidate) continue".
Sample ==
    /\ pc = "sample"
    /\ \E stream \in RunStreams :
        LET fixedSet == SeqRange(cfg.fixedNums)
            made == SamplerResults[<<cfg.useAI, AI_WEIGHTS, fixedSet,
                                     cfg.excludedSet, stream>>]
        IN  /\ calls' = calls + 1
            /\ IF made = null
               THEN /\ candidate' = null
                    /\ reference' = ReferenceStep(reference, cfg.count, null, 0)
                    /\ Continue(bestSet, maxScore)
                    /\ UNCHANGED anyCandidate
               ELSE /\ candidate' = made
                    /\ anyCandidate' = TRUE
                    /\ pc' = "score"
                    /\ UNCHANGED <<i, j, result, reference>>
    /\ UNCHANGED <<frame, verdict, overlapVars, dom, AI_WEIGHTS,
                   LottoHistory, historyKind,
                   inserted, storage, cfg, bestSet,
                   maxScore, progress, alerts>>

\* The rest of the iteration: the score and the comparison.
Score ==
    /\ pc = "score"
    /\ \E x \in NoiseDraws :
        LET score == ScoreOf(candidate, x, cfg)
            best  == IF Improves(score, maxScore) THEN candidate ELSE bestSet
            max   == IF Improves(score, maxScore) THEN score ELSE maxScore
        IN  /\ bestSet' = best
            /\ maxScore' = max
            /\ reference' = ReferenceStep(reference, cfg.count, candidate, score)
            /\ Continue(best, max)
    /\ candidate' = null
    /\ UNCHANGED <<frame, verdict, overlapVars, dom, AI_WEIGHTS,
                   LottoHistory, historyKind,
                   inserted, storage, cfg, progress,
                   alerts, calls, anyCandidate>>

\* saveToHistory(numbers) inside the handler's try: unshift is a method of
\* arrays only, and the TypeError of any other value reaches the catch; so
\* does what the closing renderHistory() throws, after the array is stored.
HandlerSave(numbers, date) ==
    IF historyKind = "array"
    THEN /\ LottoHistory' = SavedHistory(LottoHistory, numbers, date)
         /\ storage' = Item(LottoHistory')
         /\ inserted' = Append(inserted, [numbers |-> numbers, date |-> date])
         /\ alerts' = IF RenderThrows(storage', dom.historyList)
                      THEN Append(alerts, "systemError") ELSE alerts
    ELSE /\ alerts' = Append(alerts, "systemError")
         /\ UNCHANGED <<LottoHistory, storage, inserted>>

\* The handler after "await runMonteCarloSimulation()" and the 500 ms wait.
Finish ==
    /\ pc = "returned"
    /\ IF result.numbers # null
       THEN HandlerSave(result.numbers, ClickMinute)
       ELSE /\ alerts' = Append(alerts, "notFound")
            /\ UNCHANGED <<LottoHistory, storage, inserted>>
    /\ pc' = "done"
    /\ UNCHANGED historyKind
    /\ UNCHANGED <<frame, verdict, overlapVars, dom, AI_WEIGHTS,
                   cfg, i, j, bestSet, maxScore, candidate,
                   result, progress, calls, anyCandidate, reference>>

Next == Click \/ BatchStart \/ Sample \/ Score \/ Finish

Spec == Init /\ [][Next]_vars

\* ------------------------------------------------------------ one call
\* A single call of a sampler, followed one loop iteration at a time on
\* every sequence of draws over SamplerDraws.
SamplerDraws == { XOf(1), XOf(3), XOf(5), XOf(8) }
SamplerFixedSets == { {}, {7, 12} }
SamplerExclusions == { {}, {5, 20} }

FrameWork(f) == [set |-> f.set, tries |-> f.tries]

InitSampler ==
    /\ AI_WEIGHTS = BuildWeights(<<999, 0, 500, 250>>)
    /\ frame = NoFrame
    /\ runs = NoRuns /\ locals = NoLocals /\ turn = 0
    /\ verdict = NoVerdict
    /\ dom = CHOOSE d \in DomStates : TRUE
    /\ storage = NoItem
    /\ LottoHistory = <<>>
    /\ historyKind = "array"
    /\ inserted = <<>>
    /\ pc = "idle"
    /\ cfg = NoCfg
    /\ i = 0 /\ j = 0
    /\ bestSet = null /\ maxScore = 0
    /\ candidate = null
    /\ result = NoResult
    /\ progress = <<>>
    /\ alerts = <<>>
    /\ calls = 0
    /\ anyCandidate = FALSE
    /\ reference = ReferenceStart

\* const set = new Set(fixedSet); let tries = 0;
SamplerEnter ==
    /\ frame.pc = "idle"
    /\ \E useAI \in BOOLEAN, fixedSet \in SamplerFixedSets,
          excludedSet \in SamplerExclusions :
        frame' = [pc |-> "loop",
                  call |-> IF useAI
                           THEN WeightedCall(AI_WEIGHTS, excludedSet)
                           ELSE UniformCall(excludedSet),
                  fixedSet |-> fixedSet,
                  set |-> SamplerStart(fixedSet).set,
                  tries |-> SamplerStart(fixedSet).tries,
                  discarded |-> 0, ret |-> null]
    /\ UNCHANGED <<runVars, AI_WEIGHTS, verdict, overlapVars>>

\* One iteration of the while loop.
SamplerIterate ==
    /\ frame.pc = "loop"
    /\ SamplerContinues(FrameWork(frame))
    /\ \E x \in SamplerDraws :
        LET after == SamplerBody(FrameWork(frame), frame.call.excludedSet,
                                 DrawBall(frame.call, AI_WEIGHTS, x))
        IN  frame' = [frame EXCEPT
                        !.set = after.set,
                        !.tries = after.tries,
                        !.discarded = IF after.set = frame.set
                                      THEN @ + 1 ELSE @]
    /\ UNCHANGED <<runVars, AI_WEIGHTS, verdict, overlapVars>>

\* The loop's exit and the return.
SamplerExit ==
    /\ frame.pc = "loop"
    /\ ~SamplerContinues(FrameWork(frame))
    /\ frame' = [frame EXCEPT !.pc = "returned",
                              !.ret = SamplerReturn(FrameWork(frame))]
    /\ UNCHANGED <<runVars, AI_WEIGHTS, verdict, overlapVars>>

NextSampler == SamplerEnter \/ SamplerIterate \/ SamplerExit

SpecSampler == InitSampler /\ [][NextSampler]_vars

\* ------------------------------------------------------------ history
\* The page loads with some item in localStorage, then results are saved one
\* after the other.
MaxInserted == 8
HistoryCombos == { <<1, 2, 3, 4, 5, 6>>, <<16, 18, 22, 25, 29, 40>> }
\* The stored texts: none, '', not JSON, null, 7, "", "abc", {}, {"length":0},
\* [1,2], and histories written by saveToHistory.
StoredTexts ==
    { NoItem, Text("empty", 0), Text("unparseable", 0), Text("null", -1),
      Text("number", -1), Text("string", 0), Text("string", 3),
      Text("object", -1), Text("object", 0), Item(<<NotARecord, NotARecord>>),
      Item(<<>>), Item(SubSeq(FullHistory, 1, 2)), Item(FullHistory) }
\* The page with and without its #historyList element.
HistoryPages ==
    { [d EXCEPT !.historyList = h] :
        d \in { CHOOSE c \in DomStates : TRUE }, h \in BOOLEAN }

InitHistory ==
    /\ storage \in StoredTexts
    /\ pc = "boot"
    /\ LottoHistory = <<>>
    /\ historyKind = "array"
    /\ inserted = <<>>
    /\ AI_WEIGHTS = BuildWeights(<<0>>)
    /\ frame = NoFrame
    /\ runs = NoRuns /\ locals = NoLocals /\ turn = 0
    /\ verdict = NoVerdict
    /\ dom \in HistoryPages
    /\ cfg = NoCfg
    /\ i = 0 /\ j = 0
    /\ bestSet = null /\ maxScore = 0
    /\ candidate = null
    /\ result = NoResult
    /\ progress = <<>>
    /\ alerts = <<>>
    /\ calls = 0
    /\ anyCandidate = FALSE
    /\ reference = ReferenceStart

\* DOMContentLoaded: loadHistory().
LoadPage ==
    /\ pc = "boot"
    /\ LottoHistory' = LoadedHistory(storage, dom.historyList)
    /\ historyKind' = LoadedKind(storage, dom.historyList)
    /\ inserted' = Reversed(LoadedHistory(storage, dom.historyList))
    /\ pc' = "idle"
    /\ UNCHANGED <<frame, verdict, overlapVars, dom, AI_WEIGHTS,
                   storage, cfg, i, j, bestSet, maxScore,
                   candidate, result, progress, alerts, calls, anyCandidate,
                   reference>>

\* A click whose run returned numbers: the handler's saveToHistory(numbers).
SaveResult ==
    /\ pc = "idle"
    /\ Len(inserted) + Len(alerts) < MaxInserted
    /\ \E numbers \in HistoryCombos :
           HandlerSave(numbers, ClickMinute + Len(inserted))
    /\ UNCHANGED <<frame, verdict, overlapVars, dom, AI_WEIGHTS,
                   historyKind, pc, cfg, i, j, bestSet,
                   maxScore, candidate, result, progress, calls, anyCandidate,
                   reference>>

NextHistory == LoadPage \/ SaveResult

SpecHistory == InitHistory /\ [][NextHistory]_vars

\* ------------------------------------------------------------ filters
\* The filters and the scorer applied to one candidate: every 6-subset of
\* FilterBalls and the combinations at the band edges.
FilterBalls == { 1, 2, 3, 4, 5, 6, 9, 17, 24, 33, 41, 44, 45 }
BandEdgeCombos ==
    { <<11, 12, 13, 14, 15, 16>>, <<12, 13, 14, 15, 16, 17>>,
      <<15, 16, 17, 18, 19, 20>>, <<26, 27, 28, 29, 30, 31>>,
      <<27, 28, 29, 30, 31, 32>>, <<30, 31, 32, 33, 34, 35>>,
      <<29, 30, 31, 32, 33, 34>>, <<40, 41, 42, 43, 44, 45>> }
FilterInputs ==
    { SortedArray(c) : c \in { b \in SUBSET FilterBalls :
                                 Cardinality(b) = SELECT_COUNT } }
    \cup BandEdgeCombos
FilterFlags == [sum : BOOLEAN, ac : BOOLEAN, mirror : BOOLEAN, matrix : BOOLEAN]
\* Math.random() at its least, at a half and at its greatest.
FilterNoise == { 0, RandUnit \div 2, RandUnit - 1 }

InitFilters ==
    /\ candidate \in FilterInputs
    /\ pc = "filter"
    /\ verdict = NoVerdict
    /\ storage = NoItem
    /\ LottoHistory = <<>>
    /\ historyKind = "array"
    /\ inserted = <<>>
    /\ AI_WEIGHTS = BuildWeights(<<0>>)
    /\ frame = NoFrame
    /\ runs = NoRuns /\ locals = NoLocals /\ turn = 0
    /\ dom = CHOOSE d \in DomStates : TRUE
    /\ cfg = NoCfg
    /\ i = 0 /\ j = 0
    /\ bestSet = null /\ maxScore = 0
    /\ result = NoResult
    /\ progress = <<>>
    /\ alerts = <<>>
    /\ calls = 0
    /\ anyCandidate = FALSE
    /\ reference = ReferenceStart

\* The four filters, the displayed AC value and the score of the candidate
\* under some setting of the checkboxes and some noise.
Evaluate ==
    /\ pc = "filter"
    /\ \E flags \in FilterFlags, x \in FilterNoise :
        /\ cfg' = [NoCfg EXCEPT !.useSum = flags.sum, !.useAC = flags.ac,
                                !.useMirror = flags.mirror,
                                !.useMatrix = flags.matrix]
        /\ verdict' = [sum |-> checkSum(candidate),
                       ac |-> checkAC(candidate),
                       acValue |-> getACValue(candidate),
                       mirror |-> checkMirror(candidate),
                       matrix |-> checkMatrix(candidate),
                       noise |-> x,
                       score |-> ScoreOf(candidate, x, cfg')]
    /\ pc' = "filtered"
    /\ UNCHANGED <<frame, overlapVars, dom, AI_WEIGHTS,
                   LottoHistory, historyKind, inserted,
                   storage, i, j, bestSet, maxScore, candidate, result,
                   progress, alerts, calls, anyCandidate, reference>>

NextFilters == Evaluate

SpecFilters == InitFilters /\ [][NextFilters]_vars

\* ------------------------------------------------------------ two runs
\* The button is clicked again while the first click's run is suspended at
\* an await.  Each call of runMonteCarloSimulation declares its own i, j,
\* bestSet and maxScore; between two awaits a run's code executes alone.
\* The runs are followed through their loops and returns; the settings are
\* valid, without filters, fixed numbers or exclusions, and the second click
\* is made in the 100-draw mode.

\* Every call writes the same variables.
SlotShared(r) == 1
\* let bestSet, let maxScore, let i, let j: one set per call.
Slot(r) == r

\* What an iteration may read from the random source: the sampler's stream
\* and the scorer's noise.
OverlapDraws ==
    { <<StreamOfBalls(<<3, 3, 20, 11, 19, 24, 38, 43>>), 0>>,
      <<StreamOfBalls(<<16, 18, 22, 25, 29, 40>>), (95 * RandUnit) \div 100>>,
      <<StreamOfBalls(<<1, 2, 3>>), 0>> }
\* What the uniform sampler returns on each draw's stream.
OverlapCandidates ==
    [d \in OverlapDraws |->
        SamplerResults[<<FALSE, BuildWeights(<<0>>), {}, {}, d[1]>>]]

\* The second run is followed where its click and its frame come before the
\* first run has processed more than MaxOverlapChunks chunks, or after the
\* first run has returned.
MaxOverlapChunks == 3
OverlapNear ==
    \/ runs[1].pc \in {"returned", "done"}
    \/ locals[Slot(1)].i <= MaxOverlapChunks * CHUNK_SIZE

InitOverlap ==
    /\ runs = NoRuns /\ locals = NoLocals /\ turn = 0
    /\ storage = NoItem
    /\ LottoHistory = <<>>
    /\ historyKind = "array"
    /\ inserted = <<>>
    /\ pc = "idle"
    /\ verdict = NoVerdict
    /\ AI_WEIGHTS = BuildWeights(<<0>>)
    /\ frame = NoFrame
    /\ dom = CHOOSE d \in DomStates : TRUE
    /\ cfg = NoCfg
    /\ i = 0 /\ j = 0
    /\ bestSet = null /\ maxScore = 0
    /\ candidate = null
    /\ result = NoResult
    /\ progress = <<>>
    /\ alerts = <<>>
    /\ calls = 0
    /\ anyCandidate = FALSE
    /\ reference = ReferenceStart

\* A click: the run reads its settings and declares its variables, up to its
\* first await.  The second click comes while the first run is suspended.
OverlapClick(r) ==
    /\ turn = 0
    /\ runs[r].pc = "idle"
    /\ r = 2 => runs[1].pc \in {"yield", "returned"} /\ OverlapNear
    /\ \E useMonteCarlo \in BOOLEAN :
        /\ r = 2 => ~useMonteCarlo
        /\ locals' = [locals EXCEPT ![Slot(r)] =
                         [count |-> SimulationCount(useMonteCarlo),
                          i |-> 0, j |-> 0, bestSet |-> null,
                          maxScore |-> Points(INITIAL_MAX_SCORE)]]
    /\ runs' = [runs EXCEPT ![r].pc = "yield",
                            ![r].reference = ReferenceStart]
    /\ UNCHANGED <<runVars, AI_WEIGHTS, frame, verdict, turn>>

\* The animation frame a run awaits arrives: the run writes its progress to
\* the progress bar, which every run shares, and its chunk begins.
OverlapFrame(r) ==
    /\ turn = 0
    /\ runs[r].pc = "yield"
    /\ r = 2 => OverlapNear
    /\ turn' = r
    /\ progress' = Append(progress, ProgressPercent(locals[Slot(r)].i,
                                                    locals[Slot(r)].count))
    /\ runs' = [runs EXCEPT ![r].pc = "draw"]
    /\ locals' = [locals EXCEPT ![Slot(r)].j = 0]
    /\ UNCHANGED <<dom, LottoHistory, historyKind, inserted, storage, pc, cfg,
                   i, j, bestSet, maxScore, candidate, result, alerts, calls,
                   anyCandidate, reference, AI_WEIGHTS, frame, verdict>>

\* One iteration of the chunk of the run that is executing, and what
\* follows it: the next iteration, the next await, or the return.
OverlapDraw(r) ==
    /\ turn = r
    /\ runs[r].pc = "draw"
    /\ \E draw \in OverlapDraws :
        LET l      == locals[Slot(r)]
            cand   == OverlapCandidates[draw]
            x      == draw[2]
            score  == IF cand = null THEN 0 ELSE ScoreOf(cand, x, NoCfg)
            better == cand # null /\ Improves(score, l.maxScore)
            best   == IF better THEN cand ELSE l.bestSet
            max    == IF better THEN score ELSE l.maxScore
            more   == InChunk(l.i, l.j + 1, l.count)
            again  == InRun(l.i + CHUNK_SIZE, l.count)
        IN  /\ locals' = [locals EXCEPT ![Slot(r)] =
                             [l EXCEPT !.bestSet = best, !.maxScore = max,
                                       !.j = IF more THEN l.j + 1 ELSE 0,
                                       !.i = IF more THEN l.i
                                             ELSE l.i + CHUNK_SIZE]]
            /\ runs' = [runs EXCEPT
                          ![r].pc = IF more THEN "draw"
                                    ELSE IF again THEN "yield"
                                    ELSE "returned",
                          ![r].result = IF more \/ again THEN @
                                        ELSE [numbers |-> best, score |-> max],
                          ![r].reference =
                              ReferenceStep(@, l.count, cand, score)]
            /\ turn' = IF more THEN r ELSE 0
    /\ UNCHANGED <<runVars, AI_WEIGHTS, frame, verdict>>

\* A run's handler after its awaits: the save or the alert.
OverlapFinish(r) ==
    /\ turn = 0
    /\ runs[r].pc = "returned"
    /\ IF runs[r].result.numbers # null
       THEN HandlerSave(runs[r].result.numbers, ClickMinute)
       ELSE /\ alerts' = Append(alerts, "notFound")
            /\ UNCHANGED <<LottoHistory, storage, inserted>>
    /\ runs' = [runs EXCEPT ![r].pc = "done"]
    /\ UNCHANGED <<frame, verdict, dom, AI_WEIGHTS, historyKind, pc, cfg, i, j,
                   bestSet, maxScore, candidate, result, progress, calls,
                   anyCandidate, reference, locals, turn>>

NextOverlap ==
    \E r \in RunIds :
        OverlapClick(r) \/ OverlapFrame(r) \/ OverlapDraw(r) \/ OverlapFinish(r)

SpecOverlap == InitOverlap /\ [][NextOverlap]_vars

\* ------------------------------------------------------------ properties
ValidCombination(c) ==
    /\ Len(c) = 6
    /\ \A k \in 1..6 : c[k] \in 1..45
    /\ \A k \in 1..5 : c[k] < c[k + 1]

Returned == pc \in {"returned", "done"}
\* The settings are a configuration error: two equal fixed numbers, or a
\* fixed number in the exclusion set.
ConfigError ==
    LET fixedNums   == ParseFixed(dom.fields.fixedNum1, dom.fields.fixedNum2)
        excludedSet == ParseExclusions(dom.fields.exclusionInput)
    IN  \/ Len(fixedNums) = 2 /\ fixedNums[1] = fixedNums[2]
        \/ SeqRange(fixedNums) \cap excludedSet # {}
\* What the search loop returns when no draw produced a candidate.
NotFound == [numbers |-> null, score |-> Points(INITIAL_MAX_SCORE)]

\* C1: every combination a sampler hands to the loop, the incumbent and the
\* combination a run returns has exactly 6 values in 1..45, strictly
\* ascending (hence without duplicates).
C1_CombinationsValid ==
    /\ candidate # null => ValidCombination(candidate)
    /\ bestSet # null => ValidCombination(bestSet)
    /\ result.numbers # null => ValidCombination(result.numbers)
C1_Witness ==
    /\ pc = "done" /\ result.numbers # null
    /\ cfg.fixedNums = <<7, 12>> /\ cfg.useAI

\* C2: a run returns numbers = null if and only if none of its sampler calls
\* returned a combination.
C2_NotFoundIffNoDraw ==
    Returned => (result.numbers = null <=> ~anyCandidate)

\* C3: on a configuration error the value returned differs from the one
\* returned when no draw produced a candidate, and the caller does not
\* report "no candidate found".
C3_ConfigErrorDistinct ==
    (Returned /\ ConfigError) =>
        /\ result # NotFound
        /\ \A k \in DOMAIN alerts : alerts[k] # "notFound"

\* C4: on a configuration error no sampler call is made, no progress is
\* reported, no candidate is scored and the history stays as it was.
C4_RejectedBeforeLoop ==
    [][ConfigError =>
          /\ calls' = 0 /\ ~anyCandidate'
          /\ progress' = <<>>
          /\ candidate' = null /\ pc' \notin {"yield", "sample", "score"}
          /\ LottoHistory' = LottoHistory /\ storage' = storage]_vars
C4_Witness ==
    /\ pc = "done" /\ ConfigError
    /\ Len(LottoHistory) = MAX_HISTORY /\ alerts # <<>>

\* C5: in a run that passed validation every fixed number is in every
\* combination the sampler returns, in the incumbent and in the result.
C5_FixedIncluded ==
    (pc # "idle" /\ ~ConfigError) =>
        \A f \in SeqRange(cfg.fixedNums) :
            /\ candidate # null => f \in SeqRange(candidate)
            /\ bestSet # null => f \in SeqRange(bestSet)
            /\ result.numbers # null => f \in SeqRange(result.numbers)
C5_Witness ==
    /\ pc = "done" /\ result.numbers # null /\ cfg.fixedNums = <<7, 12>>
    /\ ~cfg.useAI

\* C6: no combination the sampler returns in a validated run, none a run
\* returns and none it appends to the history holds an excluded number.
C6_ExcludedAbsent ==
    (pc # "idle" /\ ~ConfigError) =>
        /\ candidate # null => SeqRange(candidate) \cap cfg.excludedSet = {}
        /\ bestSet # null => SeqRange(bestSet) \cap cfg.excludedSet = {}
        /\ result.numbers # null =>
               SeqRange(result.numbers) \cap cfg.excludedSet = {}
        /\ (pc = "done" /\ result.numbers # null) =>
               /\ LottoHistory # <<>>
               /\ SeqRange(LottoHistory[1].numbers) \cap cfg.excludedSet = {}
C6_Witness ==
    /\ pc = "done" /\ result.numbers # null /\ 20 \in cfg.excludedSet
    /\ LottoHistory[1].numbers = result.numbers

\* C7 as stated: a returned call failed exactly when it had discarded 1000
\* draws, accepted draws not counting toward the limit.
C7_FailureAfter1000Discarded ==
    frame.pc = "returned" =>
        (frame.ret = null <=> frame.discarded = MAX_TRIES)

SamplerCallBounded(f) ==
    /\ f.tries <= MAX_TRIES
    /\ f.tries = f.discarded + Cardinality(f.set) - Cardinality(f.fixedSet)
    /\ Cardinality(f.set) <= SELECT_COUNT
    /\ f.pc = "returned" =>
          /\ f.ret = null <=> Cardinality(f.set) < SELECT_COUNT
          /\ f.ret = null => f.tries = MAX_TRIES
          /\ f.ret # null => SeqRange(f.ret) = f.set
\* C7: each sampler call terminates within 1000 iterations, every iteration
\* counting toward the limit whether its draw was accepted or discarded; the
\* call returns a combination once the set holds 6 members and returns null
\* exactly when 1000 iterations have passed with fewer than 6 members.
C7_SamplerTerminates ==
    [][/\ SamplerCallBounded(frame')
       /\ (frame.pc = "loop" /\ frame'.pc = "loop") =>
              /\ frame'.tries = frame.tries + 1
              /\ Cardinality(frame.set) < SELECT_COUNT
       /\ (frame.pc = "loop" /\ frame'.pc = "returned") =>
              \/ Cardinality(frame.set) = SELECT_COUNT
              \/ frame.tries = MAX_TRIES]_vars
C7_Witness ==
    /\ frame.pc = "returned" /\ frame.ret = null
    /\ frame.tries = MAX_TRIES
    /\ frame.discarded < MAX_TRIES /\ frame.discarded > 0
    /\ Cardinality(frame.set) > Cardinality(frame.fixedSet)

InLoop == pc \in {"yield", "sample", "score"}
\* C8: while a run is in its loop the incumbent changes only when a scored
\* candidate's score is strictly greater than the incumbent's: the score
\* never decreases, a failed draw leaves the incumbent as it was, and a
\* candidate with an equal or lower score does not replace it.
C8_StrictImprovementOnly ==
    [][InLoop =>
          /\ maxScore' >= maxScore
          /\ pc # "score" => (bestSet' = bestSet /\ maxScore' = maxScore)
          /\ (bestSet' # bestSet \/ maxScore' # maxScore) =>
                /\ pc = "score"
                /\ bestSet' = candidate
                /\ maxScore' > maxScore
                /\ \E x \in NoiseDraws :
                       ScoreOf(candidate, x, cfg) = maxScore']_vars
C8_Witness ==
    /\ pc = "score" /\ bestSet # null /\ candidate # bestSet
    /\ \E x \in NoiseDraws : ScoreOf(candidate, x, cfg) = maxScore
    /\ \E x \in NoiseDraws : ScoreOf(candidate, x, cfg) < maxScore

\* C9: the batched loop makes exactly totalDraws sampler calls, one per
\* iteration in order, its incumbent is at every point the incumbent of the
\* loop without batches fed the same candidates and noise, and it returns
\* that loop's final incumbent and score.
C9_BatchingCosmetic ==
    /\ InLoop =>
          /\ calls = i + j + (IF pc = "score" THEN 1 ELSE 0)
          /\ reference.k = i + j
          /\ calls <= cfg.count
          /\ reference.best = bestSet /\ reference.max = maxScore
    /\ (Returned /\ ~ConfigError) =>
          /\ calls = cfg.count
          /\ reference.k = cfg.count
          /\ result = [numbers |-> reference.best, score |-> reference.max]
C9_Witness ==
    /\ pc = "done" /\ cfg.count = SIMULATION_COUNT_MC
    /\ Len(progress) = 20 /\ calls = SIMULATION_COUNT_MC
    /\ result.numbers # null

\* C10: the reported percentages of a run are non-decreasing, within
\* 0..100, each the fraction of draws processed when it is reported, one
\* report following each batch, and the report after the last batch is 100.
C10_ProgressReachesHundred ==
    (pc # "idle" /\ ~ConfigError) =>
        /\ \A k \in DOMAIN progress : progress[k] \in 0..100
        /\ \A k \in DOMAIN progress :
               k > 1 => progress[k - 1] <= progress[k]
        /\ pc \in {"sample", "score"} =>
               progress[Len(progress)] = ProgressPercent(i, cfg.count)
        /\ Returned =>
               /\ progress # <<>>
               /\ progress[Len(progress)] = 100

\* The n most recent of the records q received, most recent first.
MostRecentFirst(q, n) ==
    [k \in 1..Min(n, Len(q)) |-> q[Len(q) + 1 - k]]
\* C11: after any sequence of saveToHistory calls, from an empty history or
\* one loaded from storage, the history holds at most 5 records: the most
\* recent it received, most recent first (so a save into a full history
\* evicts exactly the oldest), and storage holds the same.
C11_HistoryCapped ==
    (pc = "idle" /\ historyKind = "array") =>
        /\ Len(LottoHistory) <= 5
        /\ LottoHistory = MostRecentFirst(inserted, 5)
        /\ (inserted # <<>> /\ inserted[Len(inserted)].date >= ClickMinute) =>
               storage = Item(LottoHistory)
C11_Witness ==
    /\ pc = "idle" /\ Len(inserted) = 6
    /\ inserted[1].date = ClickMinute
    /\ Len(LottoHistory) = 5
    /\ LottoHistory[5] = inserted[2] /\ LottoHistory[1] = inserted[6]
    /\ inserted[1].numbers # inserted[2].numbers

WellFormed(item) == Truthy(item) /\ item.shape = "records"
\* C12: whatever localStorage holds, loadHistory leaves an array in
\* LottoHistory, the empty one unless the item is a well-formed sequence of
\* records, and no later saveToHistory fails.
C12_LoadNeverFatal ==
    pc # "boot" =>
        /\ historyKind = "array"
        /\ ~WellFormed(storage) => LottoHistory = <<>>
        /\ \A k \in DOMAIN alerts : alerts[k] # "systemError"

Filtered == pc = "filtered"
\* The reward or penalty the claim's table gives a filter.
Reward(enabled, passes, onPass, onFail) ==
    IF ~enabled THEN 0 ELSE IF passes THEN onPass ELSE onFail
\* C13: the score is the noise, in [0,10), plus for each enabled filter its
\* reward or penalty (Sum +20/-50, AC +15/-20, Mirror +10/0, Matrix
\* +10/-10); a disabled filter adds nothing.
C13_ScoreComposition ==
    Filtered =>
        LET table == Reward(cfg.useSum, verdict.sum, 20, -50)
                     + Reward(cfg.useAC, verdict.ac, 15, -20)
                     + Reward(cfg.useMirror, verdict.mirror, 10, 0)
                     + Reward(cfg.useMatrix, verdict.matrix, 10, -10)
            noise == verdict.score - table * RandUnit
        IN  /\ noise = 10 * verdict.noise
            /\ noise >= 0 /\ noise < 10 * RandUnit
C13_Witness ==
    /\ Filtered
    /\ ~cfg.useSum /\ ~verdict.sum
    /\ cfg.useAC /\ verdict.ac
    /\ cfg.useMirror /\ ~verdict.mirror
    /\ cfg.useMatrix /\ ~verdict.matrix
    /\ verdict.noise = RandUnit - 1

\* The distinct differences among the 15 pairs of the candidate.
PairDifferences ==
    { d \in 1..44 : \E a \in 1..5 : \E b \in (a + 1)..6 :
                       candidate[b] - candidate[a] = d }
\* C14: the AC filter passes exactly when the number of distinct pairwise
\* differences minus 5 is at least 7, getACValue is that number, and
\* {1,2,3,4,5,6} has AC 0 and fails.
C14_ACFilter ==
    Filtered =>
        LET distinct == Cardinality(PairDifferences)
        IN  /\ verdict.acValue = distinct - 5
            /\ verdict.ac <=> (distinct - 5 >= 7)
            /\ verdict.ac <=> (verdict.acValue >= 7)
            /\ candidate = <<1, 2, 3, 4, 5, 6>> =>
                   (verdict.acValue = 0 /\ ~verdict.ac)
C14_Witness ==
    Filtered /\ verdict.acValue = 7 /\ verdict.ac

CandidateSum ==
    candidate[1] + candidate[2] + candidate[3] + candidate[4] + candidate[5]
    + candidate[6]
\* C15: the Sum filter passes exactly when the sum of the 6 values is in
\* 120..170: 120 and 170 pass, 119 and 171 fail.
C15_SumFilter ==
    Filtered =>
        /\ verdict.sum <=> CandidateSum \in 120..170
        /\ CandidateSum \in {120, 170} => verdict.sum
        /\ CandidateSum \in {119, 171} => ~verdict.sum
C15_Witness ==
    Filtered /\ CandidateSum = 170 /\ verdict.sum

InBand(lo, hi) == Cardinality({ k \in 1..6 : candidate[k] \in lo..hi })
\* C16: the Matrix filter passes exactly when none of the bands 1-15, 16-30
\* and 31-45 holds more than 4 of the 6 values.
C16_MatrixFilter ==
    Filtered =>
        (verdict.matrix <=>
            (InBand(1, 15) <= 4 /\ InBand(16, 30) <= 4 /\ InBand(31, 45) <= 4))
C16_Witness ==
    Filtered /\ InBand(16, 30) = 5 /\ candidate[6] = 31 /\ ~verdict.matrix

\* C17: when two runs overlap, each run's incumbent and draw counter are at
\* every point those of the same run taken alone on the candidates and noise
\* it has drawn, and each run returns what it would return alone.
C17_RunsIsolated ==
    \A r \in RunIds :
        /\ runs[r].pc \in {"yield", "draw"} =>
              /\ locals[r].bestSet = runs[r].reference.best
              /\ locals[r].maxScore = runs[r].reference.max
              /\ locals[r].i + locals[r].j = runs[r].reference.k
        /\ runs[r].pc \in {"returned", "done"} =>
              /\ runs[r].reference.k = locals[r].count
              /\ runs[r].result = [numbers |-> runs[r].reference.best,
                                   score |-> runs[r].reference.max]
C17_Witness ==
    /\ runs[1].pc = "yield" /\ locals[1].i >= CHUNK_SIZE
    /\ locals[1].i < locals[1].count
    /\ turn = 2 /\ runs[2].pc = "draw" /\ locals[2].j > 0
    /\ locals[1].bestSet # null /\ locals[2].bestSet # null
    /\ locals[1].bestSet # locals[2].bestSet

\* C18: the history changes only when the handler receives a run's result
\* with numbers, and then by exactly one record holding those numbers, put at
\* the front; a run that returns no numbers leaves the history and the
\* storage unchanged.
C18_AppendedOncePerResult ==
    [][/\ (pc = "returned" /\ result.numbers # null) =>
              /\ inserted' = Append(inserted, LottoHistory'[1])
              /\ LottoHistory'[1].numbers = result.numbers
              /\ Len(LottoHistory') = Min(5, Len(LottoHistory) + 1)
              /\ storage' = Item(LottoHistory')
       /\ ~(pc = "returned" /\ result.numbers # null) =>
              /\ LottoHistory' = LottoHistory
              /\ inserted' = inserted
              /\ storage' = storage]_vars
C18_Witness ==
    /\ pc = "done" /\ result.numbers # null
    /\ Len(inserted) = 6 /\ Len(LottoHistory) = 5
    /\ LottoHistory[1].numbers = result.numbers
    /\ LottoHistory[2] = inserted[5]

\* C19 as stated: a returned combination scores above -1, passes the Sum
\* filter if that filter is enabled and passes the AC filter if that filter
\* is enabled.
C19_ReturnedPassesSumAndAC ==
    (Returned /\ result.numbers # null) =>
        /\ result.score > -1 * RandUnit
        /\ cfg.useSum => checkSum(result.numbers)
        /\ cfg.useAC => checkAC(result.numbers)

\* C19: a returned combination scores above -1 and, if the Sum filter is
\* enabled, has a sum in 120..170; if the AC filter is the only enabled
\* filter it passes the AC filter, and one that fails the AC filter has
\* another enabled filter's reward in its score.
C19_ReturnedAboveInitial ==
    (Returned /\ result.numbers # null) =>
        /\ result.score > -1 * RandUnit
        /\ cfg.useSum => checkSum(result.numbers)
        /\ (cfg.useAC /\ ~cfg.useSum /\ ~cfg.useMirror /\ ~cfg.useMatrix) =>
               checkAC(result.numbers)
        /\ (cfg.useAC /\ ~checkAC(result.numbers)) =>
               \/ cfg.useSum /\ checkSum(result.numbers)
               \/ cfg.useMirror /\ checkMirror(result.numbers)
               \/ cfg.useMatrix /\ checkMatrix(result.numbers)
C19_Witness ==
    /\ pc = "done" /\ result.numbers # null
    /\ cfg.useSum /\ cfg.useAC
    /\ checkSum(result.numbers) /\ ~checkAC(result.numbers)
====
